---- MODULE Spec2Model ----
(***************************************************************************)
(* Model of src/main.py: a command-line client that obtains an Azure AD    *)
(* token, lists Power BI workspaces, datasets, reports and dataset          *)
(* lineage tables, and optionally triggers a dataset refresh.               *)
(*                                                                          *)
(* Each function of main.py is an operator from the HTTP response it gets   *)
(* to what it does with it: the value it returns, the exception it lets     *)
(* escape, what it prints and how many HTTP requests it sends.  main() is   *)
(* cut at its blocking points (HTTP calls and the two input() prompts).     *)
(* Python's None is the string "None"; the empty string stays "".           *)
(***************************************************************************)
EXTENDS Integers, Sequences, FiniteSets, TLC

\* ---------------------------------------------------------------- bounds
MaxClock == 3        \* the wall clock runs over 0..MaxClock
MaxLifetime == 2     \* a granted token lives 1..MaxLifetime ticks
MaxWorkspaces == 2   \* length of the longest workspace list the API returns
MaxReports == 2      \* length of the longest report list the API returns
MaxAcquires == 3     \* calls of request_access_token() in the token harness

None == "None"

VARIABLES
    pc,                 \* position of main(): the next blocking point
    now,                \* wall clock
    access_token,       \* main's local access_token (line 396)
    expiresAt,          \* when the identity provider stops honouring it
    acquireLog,         \* one record per call of request_access_token()
    http,               \* the endpoint of every HTTP request sent to the API, in order
    last,               \* the latest of these requests and what its caller made of it
    calls,              \* number of catalog / refresh functions called
    workspaces,         \* main's local workspaces (line 397)
    selected_workspace, \* main's local selected_workspace (line 410)
    datasets,           \* main's local datasets (line 412)
    reports,            \* list_reports_and_tables' local reports (line 323)
    idx,                \* position of the for loop of line 329 (1-based)
    out,                \* what the latest step of main printed, as message tags
    error               \* the exception that ended the run, or None

vars == <<pc, now, access_token, expiresAt, acquireLog, http, last, calls, workspaces,
          selected_workspace, datasets, reports, idx, out, error>>

\* ------------------------------------------------ the world outside main.py
Tokens == {"tokA", "tokB"}

\* What msal's acquire_token_for_client returns: a dict with or without the
\* key "access_token".
TokenResponses ==
    [has_access_token : {TRUE}, access_token : Tokens, expires_in : 1..MaxLifetime]
    \cup {[has_access_token |-> FALSE, access_token |-> None, expires_in |-> 0]}

StatusCodes == {200, 202, 401, 403, 404, 500}

WorkspaceIds == <<"w1", "w2", "w3", "w4">>

Workspace(n) == [id |-> WorkspaceIds[n], name |-> "Sales"]

WorkspaceLists == {[i \in 1..n |-> Workspace(i)] : n \in 0..MaxWorkspaces}

\* datasetId of a report: missing (report.get gives None), empty, or an id.
DatasetIdValues == {None, "", "d1"}

Reports == [name : {"Q1"}, datasetId : DatasetIdValues]

ReportLists == UNION {[1..n -> Reports] : n \in 0..MaxReports}

DatasetLists == {<<>>, <<[id |-> "d1", name |-> "Rev"]>>}

\* A list endpoint's response: the status code, whether the body parses as
\* JSON, whether the parsed object has the key "value", and that array.
ListResponses(values) ==
    [status_code : StatusCodes \ {200}, json : {FALSE}, hasValue : {FALSE}, value : {<<>>}]
    \cup [status_code : {200}, json : {TRUE}, hasValue : {TRUE}, value : values]
    \cup {[status_code |-> 200, json |-> TRUE, hasValue |-> FALSE, value |-> <<>>],
          [status_code |-> 200, json |-> FALSE, hasValue |-> FALSE, value |-> <<>>]}

\* The lineage endpoint's response: datasetSchema.tables[].name.
LineageResponses ==
    [status_code : StatusCodes \ {200}, json : {FALSE}, hasSchema : {FALSE}, tables : {<<>>}]
    \cup [status_code : {200}, json : {TRUE}, hasSchema : {TRUE}, tables : {<<>>, <<"t1">>}]
    \cup {[status_code |-> 200, json |-> TRUE, hasSchema |-> FALSE, tables |-> <<>>],
          [status_code |-> 200, json |-> FALSE, hasSchema |-> FALSE, tables |-> <<>>]}

RefreshResponses == [status_code : StatusCodes]

\* ------------------------------------------------------------ python helpers
\* What a function call did: the value returned, the exception raised (None
\* when it returned), the lines printed and the HTTP requests sent.
Return(value, printed) ==
    [raised |-> None, value |-> value, out |-> printed, sends |-> 1]

Raise(exc) ==
    [raised |-> exc, value |-> <<>>, out |-> <<>>, sends |-> 1]

\* `if x:` on a str-or-None.
Truthy(x) == x \notin {None, ""}

\* seq[i] with i 0-based: negative indices count from the end.
PyIndexOk(seq, i) == -Len(seq) <= i /\ i < Len(seq)

PyIndex(seq, i) == IF i >= 0 THEN seq[i + 1] ELSE seq[Len(seq) + i + 1]

\* ------------------------------------------------------------- message tags
MsgNoWorkspaces == "Nenhum workspace encontrado."
MsgNoDatasets == "Nenhum dataset encontrado."
MsgNoReports == "Nenhum relatorio encontrado."
MsgNoBoundModel == "Este relatorio nao tem um dataset vinculado."
MsgTables == "Tabelas utilizadas:"
MsgNoTables == "Nenhuma tabela encontrada."
MsgErrWorkspaces == "Erro ao listar workspaces"
MsgErrReports == "Erro ao listar relatorios"
MsgErrDatasetsJson == "Erro ao decodificar JSON: resposta vazia."
MsgErrDatasets401 == "Erro 401: Token invalido ou sem permissao."
MsgErrDatasets == "Erro {status_code}"
MsgLineage403 == "Permissao negada para acessar o dataset"
MsgErrLineage == "Erro ao obter tabelas do dataset"
MsgRefreshOk == "Atualizacao do modelo semantico iniciada com sucesso!"
MsgRefreshErr == "Erro ao atualizar o modelo semantico"

\* response.json().get("value", []): json() raises on a body that is not JSON.
JsonValue(response) == IF response.hasValue THEN response.value ELSE <<>>

\* ------------------------------------------------------- request_access_token
\* A grant request is sent on every call (a fresh ConfidentialClientApplication,
\* line 44, has an empty cache); nothing is kept between calls.
request_access_token_returnsNone(token_response) ==
    [grants |-> 1, raised |-> None, value |-> token_response.access_token]

request_access_token(token_response) ==
    IF ~token_response.has_access_token
    THEN [grants |-> 1, raised |-> "Exception", value |-> None]
    ELSE [grants |-> 1, raised |-> None, value |-> token_response.access_token]

\* ------------------------------------------------------------ list_workspaces
list_workspaces(response) ==
    IF response.status_code = 200
    THEN IF response.json THEN Return(JsonValue(response), <<>>)
                          ELSE Raise("JSONDecodeError")
    ELSE Return(<<>>, <<MsgErrWorkspaces>>)

\* --------------------------------------------------------------- list_reports
list_reports_noStatusCheck(response) ==
    IF response.json THEN Return(JsonValue(response), <<>>)
                     ELSE Raise("JSONDecodeError")

list_reports(response) ==
    IF response.status_code = 200
    THEN IF response.json THEN Return(JsonValue(response), <<>>)
                          ELSE Raise("JSONDecodeError")
    ELSE Return(<<>>, <<MsgErrReports>>)

\* -------------------------------------------------------------- list_datasets
list_datasets(response) ==
    IF response.status_code = 200
    THEN IF response.json THEN Return(JsonValue(response), <<>>)
                          ELSE Return(<<>>, <<MsgErrDatasetsJson>>)
    ELSE IF response.status_code = 401
    THEN Return(<<>>, <<MsgErrDatasets401>>)
    ELSE Return(<<>>, <<MsgErrDatasets>>)

\* --------------------------------------------------------- get_dataset_tables
get_dataset_tables_raiseForStatus(response) ==
    IF response.status_code = 200
    THEN IF response.json
         THEN Return(IF response.hasSchema THEN response.tables ELSE <<>>, <<>>)
         ELSE Raise("JSONDecodeError")
    ELSE Raise("HTTPError")

get_dataset_tables(response) ==
    IF response.status_code = 200
    THEN IF response.json
         THEN Return(IF response.hasSchema THEN response.tables ELSE <<>>, <<>>)
         ELSE Raise("JSONDecodeError")
    ELSE IF response.status_code = 403
    THEN Return(<<>>, <<MsgLineage403>>)
    ELSE Return(<<>>, <<MsgErrLineage>>)

\* --------------------------------------------------------- print_datasets_table
print_datasets_table(ds) == IF Len(ds) = 0 THEN <<MsgNoDatasets>> ELSE <<>>

\* ------------------------------------------------------ update_semantic_model
\* Returns None; its outcome is the line it prints.
update_semantic_model_anySuccess(response) ==
    IF response.status_code \in {200, 202}
    THEN Return(None, <<MsgRefreshOk>>)
    ELSE Return(None, <<MsgRefreshErr>>)

update_semantic_model_retry401(response) ==
    IF response.status_code = 202
    THEN Return(None, <<MsgRefreshOk>>)
    ELSE [raised |-> None, value |-> None, out |-> <<MsgRefreshErr>>,
          sends |-> IF response.status_code = 401 THEN 2 ELSE 1]

update_semantic_model(response) ==
    IF response.status_code = 202
    THEN Return(None, <<MsgRefreshOk>>)
    ELSE Return(None, <<MsgRefreshErr>>)

\* What update_semantic_model reported: "success", "failure", or None when it
\* was not the latest step.
refreshOutcome ==
    IF \E i \in 1..Len(out) : out[i] = MsgRefreshOk THEN "success"
    ELSE IF \E i \in 1..Len(out) : out[i] = MsgRefreshErr THEN "failure"
    ELSE None

\* ------------------------------------------------------------------- main
\* An HTTP request as sent: the endpoint, the bearer token and its expiry, the
\* time of sending, the status that came back and what the caller made of it.
Request(op, response, r) ==
    [op |-> op, token |-> access_token, expiresAt |-> expiresAt, at |-> now,
     status_code |-> response.status_code, raised |-> r.raised,
     result |-> r.value]

\* The endpoints of the requests a call sent.
Sent(op, r) == [i \in 1..r.sends |-> op]

NoRequest ==
    [op |-> None, token |-> None, expiresAt |-> 0, at |-> 0, status_code |-> 0,
     raised |-> None, result |-> <<>>]

Init ==
    /\ pc = "start"
    /\ now = 0
    /\ access_token = None
    /\ expiresAt = 0
    /\ acquireLog = <<>>
    /\ http = <<>>
    /\ last = NoRequest
    /\ calls = 0
    /\ workspaces = <<>>
    /\ selected_workspace = None
    /\ datasets = <<>>
    /\ reports = <<>>
    /\ idx = 0
    /\ out = <<>>
    /\ error = None

\* The record a call of request_access_token() leaves in acquireLog.
Acquired(token_response, r) ==
    [at |-> now, has_access_token |-> token_response.has_access_token,
     token |-> r.value, expiresAt |-> now + token_response.expires_in,
     grants |-> r.grants, raised |-> r.raised]

\* line 396
MainAcquire ==
    /\ pc = "start"
    /\ \E token_response \in TokenResponses :
          LET r == request_access_token(token_response) IN
          /\ acquireLog' = Append(acquireLog, Acquired(token_response, r))
          /\ IF r.raised # None
             THEN /\ pc' = "aborted"
                  /\ error' = r.raised
                  /\ UNCHANGED <<access_token, expiresAt>>
             ELSE /\ pc' = "list_workspaces"
                  /\ access_token' = r.value
                  /\ expiresAt' = now + token_response.expires_in
                  /\ UNCHANGED error
    /\ UNCHANGED <<now, http, last, calls, workspaces, selected_workspace,
                   datasets, reports, idx, out>>

\* lines 399-405: where main goes with the workspaces it got.
main_after_workspaces_noCheck(ws) == [pc |-> "select", out |-> <<>>]

main_after_workspaces(ws) ==
    IF Len(ws) = 0 THEN [pc |-> "done", out |-> <<MsgNoWorkspaces>>]
                   ELSE [pc |-> "select", out |-> <<>>]

\* lines 397-405
MainListWorkspaces ==
    /\ pc = "list_workspaces"
    /\ \E response \in ListResponses(WorkspaceLists) :
          LET r == list_workspaces(response)
              after == main_after_workspaces(r.value) IN
          /\ http' = http \o Sent("groups", r)
          /\ last' = Request("groups", response, r)
          /\ calls' = calls + 1
          /\ IF r.raised # None
             THEN /\ pc' = "aborted"
                  /\ error' = r.raised
                  /\ out' = r.out
                  /\ UNCHANGED workspaces
             ELSE /\ pc' = after.pc
                  /\ workspaces' = r.value
                  /\ out' = r.out \o after.out
                  /\ UNCHANGED error
    /\ UNCHANGED <<now, access_token, expiresAt, acquireLog, selected_workspace,
                   datasets, reports, idx>>

\* What the user types at the workspace prompt: not a number, or a number.
SelectInputs ==
    {[numeric |-> FALSE, n |-> 0]}
    \cup [numeric : {TRUE}, n : (-1)..(MaxWorkspaces + 1)]

\* lines 407-410: choice = int(input()) - 1; workspaces[choice]["id"]
main_select(ws, typed) ==
    IF ~typed.numeric THEN [raised |-> "ValueError", value |-> None]
    ELSE IF ~PyIndexOk(ws, typed.n - 1) THEN [raised |-> "IndexError", value |-> None]
    ELSE [raised |-> None, value |-> PyIndex(ws, typed.n - 1).id]

\* lines 407-410
MainSelect ==
    /\ pc = "select"
    /\ \E typed \in SelectInputs :
          LET r == main_select(workspaces, typed) IN
          IF r.raised # None
          THEN /\ pc' = "aborted"
               /\ error' = r.raised
               /\ UNCHANGED selected_workspace
          ELSE /\ pc' = "list_datasets"
               /\ selected_workspace' = r.value
               /\ UNCHANGED error
    /\ out' = <<>>
    /\ UNCHANGED <<now, access_token, expiresAt, acquireLog, http, last, calls,
                   workspaces, datasets, reports, idx>>

\* lines 412-414
MainListDatasets ==
    /\ pc = "list_datasets"
    /\ \E response \in ListResponses(DatasetLists) :
          LET r == list_datasets(response) IN
          /\ http' = http \o Sent("datasets", r)
          /\ last' = Request("datasets", response, r)
          /\ calls' = calls + 1
          /\ IF r.raised # None
             THEN /\ pc' = "aborted"
                  /\ error' = r.raised
                  /\ out' = r.out
                  /\ UNCHANGED datasets
             ELSE /\ pc' = "list_reports"
                  /\ datasets' = r.value
                  /\ out' = r.out \o print_datasets_table(r.value)
                  /\ UNCHANGED error
    /\ UNCHANGED <<now, access_token, expiresAt, acquireLog, workspaces,
                   selected_workspace, reports, idx>>

\* lines 323-327: list_reports_and_tables up to its for loop
MainListReports ==
    /\ pc = "list_reports"
    /\ \E response \in ListResponses(ReportLists) :
          LET r == list_reports(response) IN
          /\ http' = http \o Sent("reports", r)
          /\ last' = Request("reports", response, r)
          /\ calls' = calls + 1
          /\ IF r.raised # None
             THEN /\ pc' = "aborted"
                  /\ error' = r.raised
                  /\ out' = r.out
                  /\ UNCHANGED <<reports, idx>>
             ELSE /\ reports' = r.value
                  /\ UNCHANGED error
                  /\ IF Len(r.value) = 0
                     THEN /\ pc' = "ask_update"
                          /\ out' = r.out \o <<MsgNoReports>>
                          /\ UNCHANGED idx
                     ELSE /\ pc' = "lineage"
                          /\ out' = r.out
                          /\ idx' = 1
    /\ UNCHANGED <<now, access_token, expiresAt, acquireLog, workspaces,
                   selected_workspace, datasets>>

\* line 336: `if dataset_id:` on report.get("datasetId")
has_dataset(report) == Truthy(report.datasetId)

\* Where the for loop of line 329 goes after the report at idx.
AfterReport == IF idx = Len(reports) THEN "ask_update" ELSE "lineage"

\* lines 329-345: one iteration of the for loop of list_reports_and_tables
MainLineage ==
    /\ pc = "lineage"
    /\ IF has_dataset(reports[idx])
       THEN \E response \in LineageResponses :
               LET r == get_dataset_tables(response) IN
               /\ http' = http \o Sent("lineage", r)
               /\ last' = Request("lineage", response, r)
               /\ calls' = calls + 1
               /\ IF r.raised # None
                  THEN /\ pc' = "aborted"
                       /\ error' = r.raised
                       /\ out' = r.out
                       /\ UNCHANGED idx
                  ELSE /\ pc' = AfterReport
                       /\ idx' = idx + 1
                       /\ out' = r.out \o
                                 (IF Len(r.value) # 0 THEN <<MsgTables>>
                                                      ELSE <<MsgNoTables>>)
                       /\ UNCHANGED error
       ELSE /\ pc' = AfterReport
            /\ idx' = idx + 1
            /\ out' = <<MsgNoBoundModel>>
            /\ UNCHANGED <<http, last, calls, error>>
    /\ UNCHANGED <<now, access_token, expiresAt, acquireLog, workspaces,
                   selected_workspace, datasets, reports>>

\* What the user types at the two refresh prompts.
UpdateInputs == {"s", "n"}

DatasetIdInputs == {"d1", "zz"}

\* lines 419-422
MainAskUpdate ==
    /\ pc = "ask_update"
    /\ pc' = "done"
    /\ \E update \in UpdateInputs :
          IF update = "s"
          THEN \E dataset_id \in DatasetIdInputs, response \in RefreshResponses :
                  LET r == update_semantic_model(response) IN
                  /\ http' = http \o Sent("refreshes", r)
                  /\ last' = Request("refreshes", response, r)
                  /\ calls' = calls + 1
                  /\ out' = r.out
          ELSE /\ out' = <<>>
               /\ UNCHANGED <<http, last, calls>>
    /\ UNCHANGED <<now, access_token, expiresAt, acquireLog, workspaces,
                   selected_workspace, datasets, reports, idx, error>>

\* lines 408 and 419: input() blocks for as long as the user takes.
PromptWait ==
    /\ pc \in {"select", "ask_update"}
    /\ now < MaxClock
    /\ now' = now + 1
    /\ UNCHANGED <<pc, access_token, expiresAt, acquireLog, http, last, calls,
                   workspaces, selected_workspace, datasets, reports, idx, out,
                   error>>

Next ==
    \/ MainAcquire
    \/ MainListWorkspaces
    \/ MainSelect
    \/ MainListDatasets
    \/ MainListReports
    \/ MainLineage
    \/ MainAskUpdate
    \/ PromptWait

Spec == Init /\ [][Next]_vars

\* ------------------------------------------------------------ token harness
\* request_access_token() called again and again by one caller, as the
\* docstring's usage example (lines 37-39) does before an API call.
AcquireCall ==
    /\ pc = "start"
    /\ Len(acquireLog) < MaxAcquires
    /\ \E token_response \in TokenResponses :
          LET r == request_access_token(token_response) IN
          /\ acquireLog' = Append(acquireLog, Acquired(token_response, r))
          /\ IF r.raised # None
             THEN UNCHANGED <<access_token, expiresAt>>
             ELSE /\ access_token' = r.value
                  /\ expiresAt' = now + token_response.expires_in
    /\ UNCHANGED <<pc, now, http, last, calls, workspaces, selected_workspace,
                   datasets, reports, idx, out, error>>

\* Time passes between two calls.
Tick ==
    /\ pc = "start"
    /\ now < MaxClock
    /\ now' = now + 1
    /\ UNCHANGED <<pc, access_token, expiresAt, acquireLog, http, last, calls,
                   workspaces, selected_workspace, datasets, reports, idx, out,
                   error>>

NextAcquire ==
    \/ AcquireCall
    \/ Tick

SpecAcquire == Init /\ [][NextAcquire]_vars

\* ------------------------------------------------------------------ claims
ListingOps == {"groups", "reports", "datasets", "lineage"}

ErrorNotices ==
    {MsgErrWorkspaces, MsgErrReports, MsgErrDatasetsJson, MsgErrDatasets401,
     MsgErrDatasets, MsgLineage403, MsgErrLineage}

Printed(msg) == \E i \in 1..Len(out) : out[i] = msg

\* C1: whenever the previous call of request_access_token() succeeded and its
\* token has not expired at the time of the next call, that next call sends no
\* grant request and returns the same token.
C1_TokenCached ==
    \A i \in 2..Len(acquireLog) :
        (acquireLog[i - 1].raised = None /\ acquireLog[i - 1].expiresAt > acquireLog[i].at)
            => (acquireLog[i].grants = 0 /\ acquireLog[i].token = acquireLog[i - 1].token)

\* C2: every request to the API carries a token that is present and whose
\* expiry is strictly later than the time the request is sent.
C2_CredentialValid ==
    last.op # None => (last.token # None /\ last.expiresAt > last.at)

\* C3: a listing function that gets a status other than 200 returns an empty
\* list and raises nothing.
C3_NonOkListingEmpty ==
    (last.op \in ListingOps /\ last.status_code # 200)
        => (last.raised = None /\ Len(last.result) = 0)

C3_Witness ==
    /\ last.op = "lineage"
    /\ last.status_code = 403
    /\ pc \in {"lineage", "ask_update"}

\* C4: no catalog response ends the run with an unhandled exception; a 200
\* answer whose body is not JSON in particular gives an empty result.
C4_CatalogNeverCrashes ==
    ~(pc = "aborted" /\ last.op \in ListingOps /\ last.raised # None)

\* C5: update_semantic_model reports success exactly when the status of the
\* refresh POST is 202, and a failure for every other status.
C5_RefreshSuccessIff202 ==
    last.op = "refreshes"
        => /\ refreshOutcome \in {"success", "failure"}
           /\ refreshOutcome = "success" <=> last.status_code = 202

C5_Witness ==
    /\ last.op = "refreshes"
    /\ last.status_code = 200
    /\ refreshOutcome = "failure"

\* C6: once list_reports_and_tables has ended, the number of lineage requests
\* sent equals the number of reports that have a datasetId (an empty datasetId
\* counted as absent).
LineageCalls == Cardinality({i \in 1..Len(http) : http[i] = "lineage"})

BoundReports ==
    Cardinality({i \in 1..Len(reports) : reports[i].datasetId \notin {None, ""}})

CompositeEnded ==
    \/ pc \in {"ask_update", "done"}
    \/ pc = "aborted" /\ last.op \in {"reports", "lineage"}

C6_OneLineageCallPerBoundReport ==
    CompositeEnded => LineageCalls = BoundReports

\* C7: when the identity provider's answer has no access token,
\* request_access_token raises, the run ends there, and no request to the API
\* is ever sent.
C7_FailedGrantFatal ==
    (Len(acquireLog) >= 1 /\ ~acquireLog[1].has_access_token)
        => /\ acquireLog[1].raised = "Exception"
           /\ pc = "aborted"
           /\ error = "Exception"
           /\ http = <<>>
           /\ calls = 0

C7_Witness ==
    /\ Len(acquireLog) = 1
    /\ ~acquireLog[1].has_access_token
    /\ pc = "aborted"

\* C8: every call of a catalog or refresh function sends exactly one HTTP
\* request whatever the status; a refresh answered 401 is reported as a
\* failure and its POST is sent once.
C8_OneRequestPerCall ==
    /\ Len(http) = calls
    /\ (last.op = "refreshes" /\ last.status_code = 401)
          => /\ refreshOutcome = "failure"
             /\ Cardinality({i \in 1..Len(http) : http[i] = "refreshes"}) = 1

C8_Witness ==
    /\ last.op = "refreshes"
    /\ last.status_code = 401
    /\ pc = "done"

\* C9: when list_workspaces gives an empty list, main prints "no workspaces"
\* and ends without a selection and without any further request; requests
\* come only in the order groups, datasets, reports, lineage..., refreshes, and
\* all but the first only after a non-empty workspace list and a selection.
C9_FailFastAndOrder ==
    /\ (last.op = "groups" /\ last.raised = None /\ Len(last.result) = 0)
          => /\ pc = "done"
             /\ Printed(MsgNoWorkspaces)
             /\ selected_workspace = None
             /\ http = <<"groups">>
    /\ \A i \in 1..Len(http) :
          /\ i = 1 => http[i] = "groups"
          /\ i = 2 => http[i] = "datasets"
          /\ i = 3 => http[i] = "reports"
          /\ i > 3 => http[i] \in {"lineage", "refreshes"}
          /\ http[i] = "refreshes" => i = Len(http)
    /\ Len(http) >= 2 => (Len(workspaces) > 0 /\ selected_workspace # None)

C9_Witness ==
    /\ last.op = "groups"
    /\ last.status_code = 200
    /\ Len(last.result) = 0
    /\ pc = "done"
    /\ Printed(MsgNoWorkspaces)

\* A step of main has just sent a listing request that was answered 401 or 403.
Denied ==
    /\ calls' # calls
    /\ last'.op \in ListingOps
    /\ last'.status_code \in {401, 403}

\* C10 as stated: a 401 or 403 on any listing request gives an empty result
\* and a notice, and the run goes on to its next step.
C10_DeniedContinues ==
    [][Denied => /\ last'.raised = None
                 /\ Len(last'.result) = 0
                 /\ Len(out') > 0 /\ out'[1] \in ErrorNotices
                 /\ pc' \notin {"done", "aborted"}]_vars

\* C10 as amended: a 401 or 403 on a listing request gives an empty result and
\* a notice; after list datasets, list reports and lineage the run goes on to
\* its next step, after list workspaces it prints "no workspaces" and ends.
C10_DeniedDegrades ==
    [][Denied => /\ last'.raised = None
                 /\ Len(last'.result) = 0
                 /\ Len(out') > 0 /\ out'[1] \in ErrorNotices
                 /\ IF last'.op = "groups"
                    THEN pc' = "done" /\ out'[Len(out')] = MsgNoWorkspaces
                    ELSE pc' \notin {"done", "aborted"}]_vars

C10_Witness ==
    /\ last.op = "datasets"
    /\ last.status_code = 401
    /\ pc = "list_reports"
    /\ datasets = <<>>

====
